---- MODULE Spec2Model ----
(***************************************************************************)
(* Timer-chan: a stopwatch that runs while a watched program holds the     *)
(* foreground.  The model covers TimerApp (timer_app.py), ConfigManager    *)
(* (config_manager.py, on top of configparser.ConfigParser), the           *)
(* ProgramManagerDialog, the PreferencesDialog, the WindowGrabber and the  *)
(* MouseListener hand-off.                                                 *)
(*                                                                         *)
(* Text (process names, configuration values, the HH:MM:SS string) is      *)
(* modelled as sequences of one-character strings, so that formatting,     *)
(* parsing, whitespace stripping and '%' interpolation are computed.       *)
(***************************************************************************)
EXTENDS Integers, Sequences, FiniteSets, TLC

\* ------------------------------------------------------------------ bounds
\* Seconds the timer may advance in all (ticks that find it idle are free).
MaxAdvance == 1
\* Clicks the listener thread may have emitted and not yet delivered.
MaxQueued == 1

\* ------------------------------------------------------------- text helpers
Empty == <<>>

IsSpace(c) == c = " "

RECURSIVE LStrip(_)
LStrip(t) ==
    IF t # <<>> /\ IsSpace(Head(t)) THEN LStrip(Tail(t)) ELSE t

RECURSIVE RStrip(_)
RStrip(t) ==
    IF t # <<>> /\ IsSpace(t[Len(t)]) THEN RStrip(SubSeq(t, 1, Len(t) - 1)) ELSE t

\* a strip that takes one blank at most from either end
StripOnce(t) ==
    LET l == IF t # <<>> /\ IsSpace(Head(t)) THEN Tail(t) ELSE t
    IN  IF l # <<>> /\ IsSpace(l[Len(l)]) THEN SubSeq(l, 1, Len(l) - 1) ELSE l

\* str.strip()
Strip(t) == RStrip(LStrip(t))

\* str.split(sep): the segments between the occurrences of sep.
RECURSIVE SplitAcc(_, _, _)
SplitAcc(t, sep, cur) ==
    IF t = <<>> THEN <<cur>>
    ELSE IF Head(t) = sep THEN <<cur>> \o SplitAcc(Tail(t), sep, <<>>)
    ELSE SplitAcc(Tail(t), sep, Append(cur, Head(t)))

Split(t, sep) == SplitAcc(t, sep, <<>>)

DigitChars == <<"0", "1", "2", "3", "4", "5", "6", "7", "8", "9">>

IsDigit(c) == \E i \in 1..10 : DigitChars[i] = c

DigitVal(c) == (CHOOSE i \in 1..10 : DigitChars[i] = c) - 1

RECURSIVE DigitsVal(_, _)
DigitsVal(t, acc) ==
    IF t = <<>> THEN acc ELSE DigitsVal(Tail(t), acc * 10 + DigitVal(Head(t)))

\* int(text): surrounding whitespace is dropped, one leading sign is allowed,
\* the rest must be one or more decimal digits; anything else is a ValueError
\* (ok = FALSE).  The alphabet of the model has no '_' and no non-ASCII digit.
PyInt(t) ==
    LET u == Strip(t)
        signed == u # <<>> /\ Head(u) \in {"-", "+"}
        d == IF signed THEN Tail(u) ELSE u
        good == d # <<>> /\ \A i \in 1..Len(d) : IsDigit(d[i])
        mag == IF good THEN DigitsVal(d, 0) ELSE 0
    IN  [ok |-> good,
         val |-> IF signed /\ Head(u) = "-" THEN 0 - mag ELSE mag]

\* str(n) for a natural number.
RECURSIVE NatStr(_)
NatStr(n) ==
    IF n < 10 THEN <<DigitChars[n + 1]>>
    ELSE Append(NatStr(n \div 10), DigitChars[(n % 10) + 1])

\* str(n) for an integer.
IntStr(n) == IF n < 0 THEN <<"-">> \o NatStr(0 - n) ELSE NatStr(n)

\* The format were it cut to two digits: the hundreds are lost.
Fmt02dTwoDigits(n) ==
    <<DigitChars[((n % 100) \div 10) + 1], DigitChars[(n % 10) + 1]>>

\* f"{n:02d}": the sign first, then zeros up to a total width of 2.
Fmt02d(n) ==
    LET body == IF n < 0 THEN NatStr(0 - n) ELSE NatStr(n)
        sign == IF n < 0 THEN <<"-">> ELSE <<>>
    IN  IF Len(sign) + Len(body) >= 2 THEN sign \o body
        ELSE sign \o <<"0">> \o body

\* f"{h:02d}:{m:02d}:{s:02d}"
FmtTime(hh, mm, ss) ==
    Fmt02d(hh) \o <<":">> \o Fmt02d(mm) \o <<":">> \o Fmt02d(ss)

\* --------------------------------------------- configparser.ConfigParser
\* The option names the application uses.  ConfigParser lower-cases option
\* names on every access, so the spelling of a key never matters.
Keys == {"Timeout", "LastTime", "ColorAlert", "OnColor", "OffColor",
         "Program1", "Program2", "Program3"}

ProgramKey(n) == CASE n = 1 -> "Program1" [] n = 2 -> "Program2" [] n = 3 -> "Program3"

\* A ConfigParser whose only section is 'section' is the function from the
\* options present to their raw text.
NoOptions == [k \in {} |-> <<>>]

\* BasicInterpolation.before_get: "%%" reads as "%"; a '%' followed by
\* anything else is an InterpolationSyntaxError (ok = FALSE).  The alphabet
\* of the model has no '(' and so no "%(name)s" reference.
RECURSIVE Interpolate(_)
Interpolate(v) ==
    IF v = <<>> THEN [ok |-> TRUE, val |-> <<>>]
    ELSE IF Head(v) = "%"
         THEN IF Len(v) >= 2 /\ v[2] = "%"
              THEN LET r == Interpolate(SubSeq(v, 3, Len(v)))
                   IN  [ok |-> r.ok, val |-> <<"%">> \o r.val]
              ELSE [ok |-> FALSE, val |-> <<>>]
         ELSE LET r == Interpolate(Tail(v))
              IN  [ok |-> r.ok, val |-> <<Head(v)>> \o r.val]

\* BasicInterpolation.before_set: value.replace('%%', '') must hold no '%',
\* or ConfigParser.set raises ValueError.
RECURSIVE DropEscapes(_)
DropEscapes(v) ==
    IF Len(v) < 2 THEN v
    ELSE IF v[1] = "%" /\ v[2] = "%" THEN DropEscapes(SubSeq(v, 3, Len(v)))
    ELSE <<Head(v)>> \o DropEscapes(Tail(v))

SetAccepts(v) == \A i \in 1..Len(DropEscapes(v)) : DropEscapes(v)[i] # "%"

\* str.lower() on the letters of the model's alphabet.
Lower(c) == CASE c = "T" -> "t" [] c = "F" -> "f" [] OTHER -> c

LowerText(v) == [i \in 1..Len(v) |-> Lower(v[i])]

\* RawConfigParser.BOOLEAN_STATES
TrueTexts == {<<"1">>, <<"y", "e", "s">>, <<"t", "r", "u", "e">>, <<"o", "n">>}
FalseTexts == {<<"0">>, <<"n", "o">>, <<"f", "a", "l", "s", "e">>, <<"o", "f", "f">>}

\* The file timer.ini: missing, unparsable ("corrupt": no section header), or
\* the options of [section] with the text after "key = " as it stands in the
\* file.
MissingFile == [state |-> "missing", kv |-> NoOptions]
CorruptFile == [state |-> "corrupt", kv |-> NoOptions]

\* ConfigParser.write: every option as "key = value".
SaveConfig(cfg) == [state |-> "ok", kv |-> cfg]

\* ConfigParser.read: a missing file is skipped; each value is read with its
\* surrounding whitespace stripped.
ReadConfig(f) == [k \in DOMAIN f.kv |-> Strip(f.kv[k])]

\* ConfigManager.get_value, the string branch: config.get(..., fallback=default).
GetStr(cfg, key, default) ==
    IF key \notin DOMAIN cfg THEN [ok |-> TRUE, val |-> default]
    ELSE Interpolate(cfg[key])

\* ConfigManager.get_value, the int branch: config.getint(..., fallback=default).
\* The fallback covers a missing option only; int() of the text may raise.
GetInt(cfg, key, default) ==
    IF key \notin DOMAIN cfg THEN [ok |-> TRUE, val |-> default]
    ELSE LET t == Interpolate(cfg[key])
             n == PyInt(t.val)
         IN  IF t.ok /\ n.ok THEN [ok |-> TRUE, val |-> n.val]
             ELSE [ok |-> FALSE, val |-> default]

\* ConfigManager.get_value, the bool branch: config.getboolean(..., fallback=default).
GetBool(cfg, key, default) ==
    IF key \notin DOMAIN cfg THEN [ok |-> TRUE, val |-> default]
    ELSE LET t == Interpolate(cfg[key])
             low == LowerText(t.val)
         IN  IF t.ok /\ low \in TrueTexts THEN [ok |-> TRUE, val |-> TRUE]
             ELSE IF t.ok /\ low \in FalseTexts THEN [ok |-> TRUE, val |-> FALSE]
             ELSE [ok |-> FALSE, val |-> default]

\* str(value) for the bool branch of set_value.
BoolStr(b) == IF b THEN <<"T", "r", "u", "e">> ELSE <<"F", "a", "l", "s", "e">>

\* ConfigManager.set_value after str(value): the option is (over)written.
SetValue(cfg, key, text) ==
    [k \in DOMAIN cfg \cup {key} |-> IF k = key THEN text ELSE cfg[k]]

\* ConfigManager.get_all_programs
GetAllPrograms(cfg) ==
    <<GetStr(cfg, "Program1", Empty),
      GetStr(cfg, "Program2", Empty),
      GetStr(cfg, "Program3", Empty)>>

\* ------------------------------------------------------------ environment
\* Process names the operating system may report (psutil.Process.name()).
NameA == <<"a">>
NamePct == <<"a", "%">>
ProcessNames == {NameA, NamePct}

\* os.getpid() of the application, and the pid of any other process.
OwnPid == 1
OtherPid == OwnPid + 1

\* WindowGrabber.get_active_window_title: the name of the process that owns
\* the foreground window, or the empty string: when a call fails on some
\* tick, and on every tick when platform.system() is not 'Windows'.
ActiveWindowTitles == ProcessNames \cup {Empty}

\* WindowGrabber.get_window_info: the pair emitted on window_info_signal, the
\* process under the point or ("", 0) when a call raised.
WindowInfos ==
    {<<n, p>> : n \in ProcessNames \cup {Empty}, p \in {OwnPid, OtherPid}}
        \cup {<<Empty, 0>>}

\* ui/constants.py: ON_COLOR.name()[1:] and OFF_COLOR.name()[1:]
OnColorDefault == <<"c", "2", "f", "f", "5", "7">>
OffColorDefault == <<"b", "f", "b", "f", "b", "f">>
TimeoutDefault == 10
LastTimeDefault == <<"0", "0", ":", "0", "0", ":", "0", "0">>

\* No caller drives the ConfigManager on its own.
NoClient == [pc |-> "none"]

\* No closeEvent has run.
NoClose == <<>>

\* No tick, so no sample, was the last step.
NoSample == <<>>

\* -------------------------------------------------------------- the state
VARIABLES
    app,                        \* "off", "running", "closed" or "crashed";
                                \* inside closeEvent "close_set", "close_saved",
                                \* "close_terminated", "close_waited", and
                                \* "accepted" once it has returned
    config,                     \* ConfigManager.config
    file,                       \* timer.ini
    h, m, s,                    \* TimerApp.h, .m, .s
    timerActive,                \* TimerApp.timerActive
    waitingForWindowSelection,  \* TimerApp.waitingForWindowSelection
    programToSet,               \* TimerApp.programToSet (0 is None)
    idleTime,                   \* TimerApp.idleTime
    watched_programs,           \* TimerApp.watched_programs
    lastTime,                   \* TimerApp.lastTime
    colorAlert,                 \* TimerApp.colorAlert
    onColor, offColor,          \* TimerApp.onColor, .offColor
    styleSheet,                 \* the widget's background colour ("" is none)
    queued,                     \* clicks emitted by the listener, not yet delivered
    advanced,                   \* seconds the ticks have added so far
    lastSample,                 \* <<w>> when the latest tick sampled w and no
                                \* step but a change of the watch-list
                                \* followed it, else <<>>
    event,                      \* what the last step reported: a transition
                                \* of the timer or the outcome of a selection
    raised,                     \* the exception the last step ended with
    client,                     \* a caller of ConfigManager on its own: where
                                \* it stands, what it set and what it got
    closedAt,                   \* <<h, m, s>> as the last closeEvent found
                                \* them, <<>> when there was none
    qthread,                    \* the MouseListener QThread executing run():
                                \* "none", "running", "terminating", "finished"
    hook,                       \* the pynput mouse.Listener thread that run()
                                \* starts and that calls on_click: "none" or
                                \* "running"
    runs                        \* two executions of the application side by
                                \* side, given the same inputs: <<r1, r2>>,
                                \* each a record of the fields above; <<>>
                                \* where one execution is followed

timeVars == <<h, m, s>>
assignVars == <<waitingForWindowSelection, programToSet>>
cacheVars == <<idleTime, watched_programs, lastTime, colorAlert, onColor, offColor>>
storeVars == <<config, file>>
threadVars == <<qthread, hook>>
vars == <<app, config, file, h, m, s, timerActive,
          waitingForWindowSelection, programToSet, idleTime, watched_programs,
          lastTime, colorAlert, onColor, offColor, styleSheet, queued, advanced,
          lastSample, event, raised, client, closedAt, qthread, hook, runs>>

\* elapsed as a count of seconds
Elapsed(hh, mm, ss) == hh * 3600 + mm * 60 + ss

\* ------------------------------------------------- timer.ini before a start
\* A file a previous session of the application left behind.
SavedFile ==
    SaveConfig(("LastTime" :> <<"0", "0", ":", "5", "9", ":", "5", "9">>)
               @@ ("Program1" :> NameA))

\* Files the application cannot start from: no section header, and a
\* Timeout that is no number.
UnusableFiles == {CorruptFile, SaveConfig("Timeout" :> <<"b", "a", "d">>)}

\* timer.ini as the application finds it: absent or as it wrote it.
InitialFiles == {MissingFile, SavedFile} \cup UnusableFiles

\* timer.ini with a LastTime edited by hand: a seconds field out of range,
\* two segments only, a segment that is no number.
EditedFiles ==
    { SaveConfig(("LastTime" :> <<"0", "0", ":", "5", "9", ":", "7", "5">>)
                 @@ ("Program1" :> NameA)),
      SaveConfig("LastTime" :> <<"1", ":", "2">>),
      SaveConfig("LastTime" :> <<"0", "x", ":", "0", "0", ":", "0", "0">>) }
        \cup UnusableFiles

\* ------------------------------------------------------------- TimerApp
\* TimerApp.loadConfig: the six cached settings, or ok = FALSE when one of
\* the typed reads raises.
LoadConfig(cfg) ==
    LET t == GetInt(cfg, "Timeout", TimeoutDefault)
        w == GetAllPrograms(cfg)
        l == GetStr(cfg, "LastTime", LastTimeDefault)
        c == GetBool(cfg, "ColorAlert", TRUE)
        on == GetStr(cfg, "OnColor", OnColorDefault)
        off == GetStr(cfg, "OffColor", OffColorDefault)
    IN  [ok |-> t.ok /\ (\A i \in 1..3 : w[i].ok) /\ l.ok /\ c.ok /\ on.ok /\ off.ok,
         idleTime |-> t.val,
         watched_programs |-> <<w[1].val, w[2].val, w[3].val>>,
         lastTime |-> l.val,
         colorAlert |-> c.val,
         onColor |-> on.val,
         offColor |-> off.val]

\* The assignments of loadConfig.
Reloaded(cfg) ==
    LET c == LoadConfig(cfg)
    IN  /\ idleTime' = c.idleTime
        /\ watched_programs' = c.watched_programs
        /\ lastTime' = c.lastTime
        /\ colorAlert' = c.colorAlert
        /\ onColor' = c.onColor
        /\ offColor' = c.offColor

\* incrementTime without the carry into the hours: the minutes run on.
IncrementTimeNoHourCarry(t) ==
    IF t[3] + 1 >= 60 THEN <<t[1], t[2] + 1, 0>> ELSE <<t[1], t[2], t[3] + 1>>

\* TimerApp.incrementTime on <<h, m, s>>
IncrementTime(t) ==
    LET s1 == t[3] + 1
        m1 == t[2] + 1
    IN  IF s1 >= 60
        THEN IF m1 >= 60 THEN <<t[1] + 1, 0, 0>> ELSE <<t[1], m1, 0>>
        ELSE <<t[1], t[2], s1>>

\* The membership test were it a prefix match: a populated slot matches
\* every sample that starts with it.
InWatchedPrefix(w, progs) ==
    \E i \in 1..Len(progs) :
        \/ progs[i] = w
        \/ /\ progs[i] # Empty
           /\ Len(progs[i]) <= Len(w)
           /\ SubSeq(w, 1, Len(progs[i])) = progs[i]

\* "active_window in self.watched_programs"
InWatched(w, progs) == \E i \in 1..Len(progs) : progs[i] = w

\* activateTimer without its "if not self.timerActive": the side effect is
\* applied on every call.
ActivateTimerUnguarded(active, alert, on, style) ==
    [timerActive |-> TRUE, event |-> "activated",
     styleSheet |-> IF alert THEN on ELSE style]

\* TimerApp.activateTimer
ActivateTimer(active, alert, on, style) ==
    IF ~active
    THEN [timerActive |-> TRUE, event |-> "activated",
          styleSheet |-> IF alert THEN on ELSE style]
    ELSE [timerActive |-> active, event |-> "none", styleSheet |-> style]

\* deactivateTimer as its docstring has it: the colour is changed "if color
\* alerts are disabled".
DeactivateTimerWhenDisabled(active, alert, off, style) ==
    IF active
    THEN [timerActive |-> FALSE, event |-> "deactivated",
          styleSheet |-> IF ~alert THEN off ELSE style]
    ELSE [timerActive |-> active, event |-> "none", styleSheet |-> style]

\* TimerApp.deactivateTimer
DeactivateTimer(active, alert, off, style) ==
    IF active
    THEN [timerActive |-> FALSE, event |-> "deactivated",
          styleSheet |-> IF alert THEN off ELSE style]
    ELSE [timerActive |-> active, event |-> "none", styleSheet |-> style]

\* TimerApp.checkActiveWindow, given the sample
CheckActiveWindow(w, progs, active, alert, on, off, style) ==
    IF InWatched(w, progs)
    THEN ActivateTimer(active, alert, on, style)
    ELSE DeactivateTimer(active, alert, off, style)

\* One execution is followed.
NoRuns == <<>>

\* Before the first start: timer.ini is one of files, no process runs.
InitApp(files) ==
    /\ file \in files
    /\ app = "off"
    /\ config = NoOptions
    /\ h = 0 /\ m = 0 /\ s = 0
    /\ timerActive = FALSE
    /\ waitingForWindowSelection = FALSE
    /\ programToSet = 0
    /\ idleTime = TimeoutDefault
    /\ watched_programs = <<Empty, Empty, Empty>>
    /\ lastTime = LastTimeDefault
    /\ colorAlert = TRUE
    /\ onColor = OnColorDefault
    /\ offColor = OffColorDefault
    /\ styleSheet = Empty
    /\ queued = 0
    /\ advanced = 0
    /\ lastSample = NoSample
    /\ event = "none"
    /\ raised = "none"
    /\ client = NoClient
    /\ closedAt = NoClose
    /\ qthread = "none"
    /\ hook = "none"

\* One execution, about to start on one of files.
InitWith(files) ==
    /\ InitApp(files)
    /\ runs = NoRuns

Init == InitWith(InitialFiles)

InitEdited == InitWith(EditedFiles)

\* The process has ended: of its state only timer.ini remains.  The fields
\* take their construction values again; h, m and s are kept as the record
\* of the elapsed time the process ended with.
Exited ==
    /\ config' = NoOptions
    /\ timerActive' = FALSE
    /\ waitingForWindowSelection' = FALSE
    /\ programToSet' = 0
    /\ idleTime' = TimeoutDefault
    /\ watched_programs' = <<Empty, Empty, Empty>>
    /\ lastTime' = LastTimeDefault
    /\ colorAlert' = TRUE
    /\ onColor' = OnColorDefault
    /\ offColor' = OffColorDefault
    /\ styleSheet' = Empty
    /\ queued' = 0
    /\ lastSample' = NoSample
    /\ event' = "none"
    /\ qthread' = "none"
    /\ hook' = "none"
    /\ UNCHANGED <<timeVars, advanced>>

\* TimerApp.__init__ (and ConfigManager.__init__, load_config) with an
\* unparsable timer.ini: config.read raises and the process ends.
StartCorrupt ==
    /\ app = "off"
    /\ file.state = "corrupt"
    /\ app' = "crashed"
    /\ raised' = "MissingSectionHeaderError in load_config"
    /\ UNCHANGED <<runs, client, closedAt>>
    /\ Exited
    /\ UNCHANGED file

\* TimerApp.__init__ when loadConfig raises: load_config has read and
\* rewritten the file, then the process ends.
StartBadValue ==
    /\ app = "off"
    /\ file.state # "corrupt"
    /\ ~LoadConfig(ReadConfig(file)).ok
    /\ file' = SaveConfig(ReadConfig(file))
    /\ app' = "crashed"
    /\ raised' = "ValueError in loadConfig"
    /\ UNCHANGED <<runs, client, closedAt>>
    /\ Exited

\* TimerApp.__init__: ConfigManager() reads timer.ini and rewrites it,
\* loadConfig caches the settings, setupTimer zeroes the timer, the mouse
\* listener starts, no assignment is pending.
Construct ==
    /\ file.state # "corrupt"
    /\ LoadConfig(ReadConfig(file)).ok
    /\ config' = ReadConfig(file)
    /\ file' = SaveConfig(config')
    /\ Reloaded(config')
    /\ timerActive' = FALSE
    /\ h' = 0 /\ m' = 0 /\ s' = 0
    /\ waitingForWindowSelection' = FALSE
    /\ programToSet' = 0
    /\ styleSheet' = Empty
    /\ queued' = 0
    /\ lastSample' = NoSample
    /\ app' = "running"
    /\ event' = "none"
    /\ raised' = "none"
    /\ qthread' = "running"
    /\ hook' = "running"
    /\ UNCHANGED <<runs, client, closedAt>>
    /\ UNCHANGED advanced

\* main: the application is started.
Start ==
    /\ app = "off"
    /\ Construct

\* main: the application is started again after it was closed.
Restart ==
    /\ app = "closed"
    /\ Construct

\* TimerApp.updateTimer: one tick of the QTimer, with the sample w.
UpdateTimer(w) ==
    /\ app = "running"
    /\ timerActive => advanced < MaxAdvance
    /\ LET t == IF timerActive THEN IncrementTime(<<h, m, s>>) ELSE <<h, m, s>>
           c == CheckActiveWindow(w, watched_programs, timerActive, colorAlert,
                                  onColor, offColor, styleSheet)
       IN  /\ h' = t[1] /\ m' = t[2] /\ s' = t[3]
           /\ timerActive' = c.timerActive
           /\ event' = c.event
           /\ styleSheet' = c.styleSheet
    /\ lastSample' = <<w>>
    /\ advanced' = IF timerActive THEN advanced + 1 ELSE advanced
    /\ raised' = "none"
    /\ UNCHANGED <<runs, client, closedAt, threadVars>>
    /\ UNCHANGED <<app, storeVars, assignVars, cacheVars, queued>>

Tick == \E w \in ActiveWindowTitles : UpdateTimer(w)

\* MouseListener.on_click, called by the pynput listener on its own thread:
\* a pressed button emits clicked(x, y), which Qt queues for the main thread.
ListenerClick ==
    /\ hook = "running" /\ queued < MaxQueued
    /\ queued' = queued + 1
    /\ event' = "none"
    /\ raised' = "none"
    /\ UNCHANGED <<runs, client, closedAt, threadVars>>
    /\ lastSample' = NoSample
    /\ UNCHANGED <<app, storeVars, timeVars, timerActive,
                   assignVars, cacheVars, styleSheet, advanced>>

\* main: app.exec() dispatches queued signals while the window is open and,
\* once closeEvent has returned, until the process exits.
EventLoopRuns == app \in {"running", "accepted"}

\* TimerApp.on_click when no selection is awaited: the click is dropped.
ClickIgnored ==
    /\ EventLoopRuns /\ queued > 0
    /\ ~waitingForWindowSelection
    /\ queued' = queued - 1
    /\ event' = "none"
    /\ raised' = "none"
    /\ UNCHANGED <<runs, client, closedAt, threadVars>>
    /\ lastSample' = NoSample
    /\ UNCHANGED <<app, storeVars, timeVars, timerActive,
                   assignVars, cacheVars, styleSheet, advanced>>

\* set_program_from_info were the name tested before the pid: a click on the
\* application itself commits its own process name.
ClickOnSelfCommits(title, pid) ==
    /\ pid = OwnPid
    /\ waitingForWindowSelection' = FALSE
    /\ IF title # Empty /\ SetAccepts(title)
       THEN /\ config' = SetValue(config, ProgramKey(programToSet), title)
            /\ file' = SaveConfig(config')
            /\ Reloaded(config')
            /\ event' = "program_set"
       ELSE /\ event' = "invalid_selection"
            /\ UNCHANGED <<storeVars, cacheVars>>
    /\ raised' = "none"
    /\ UNCHANGED <<runs, client, closedAt, threadVars>>
    /\ queued' = queued - 1
    /\ lastSample' = NoSample
    /\ UNCHANGED <<app, programToSet, timeVars, timerActive, styleSheet,
                   advanced>>

\* TimerApp.set_program_from_info(title, pid), reached from on_click through
\* get_window_info, with the process under the click its own: a warning.
ClickOnSelf(title, pid) ==
    /\ pid = OwnPid
    /\ waitingForWindowSelection' = FALSE
    /\ event' = "invalid_selection"
    /\ raised' = "none"
    /\ UNCHANGED <<runs, client, closedAt, threadVars>>
    /\ queued' = queued - 1
    /\ lastSample' = NoSample
    /\ UNCHANGED <<app, storeVars, cacheVars, programToSet, timeVars,
                   timerActive, styleSheet, advanced>>

\* set_program_from_info without its loadConfig(): the slot is written and
\* saved, the cached list is not refreshed.
ClickCommitsNoReload(title, pid) ==
    /\ pid # OwnPid /\ title # Empty
    /\ SetAccepts(title)
    /\ waitingForWindowSelection' = FALSE
    /\ config' = SetValue(config, ProgramKey(programToSet), title)
    /\ file' = SaveConfig(config')
    /\ event' = "program_set"
    /\ raised' = "none"
    /\ UNCHANGED <<runs, client, closedAt, threadVars>>
    /\ queued' = queued - 1
    /\ UNCHANGED lastSample
    /\ UNCHANGED <<app, programToSet, timeVars, timerActive, styleSheet,
                   advanced, cacheVars>>

\* set_program_from_info were it to commit and leave the request pending.
ClickCommitsKeepsPending(title, pid) ==
    /\ pid # OwnPid /\ title # Empty
    /\ SetAccepts(title)
    /\ config' = SetValue(config, ProgramKey(programToSet), title)
    /\ file' = SaveConfig(config')
    /\ Reloaded(config')
    /\ event' = "program_set"
    /\ raised' = "none"
    /\ UNCHANGED <<runs, client, closedAt, threadVars>>
    /\ queued' = queued - 1
    /\ UNCHANGED lastSample
    /\ UNCHANGED <<app, assignVars, timeVars, timerActive, styleSheet,
                   advanced>>

\* set_program_from_info with a name set_value accepts: the slot is written,
\* the file saved and the settings reloaded.
ClickCommits(title, pid) ==
    /\ pid # OwnPid /\ title # Empty
    /\ SetAccepts(title)
    /\ waitingForWindowSelection' = FALSE
    /\ config' = SetValue(config, ProgramKey(programToSet), title)
    /\ file' = SaveConfig(config')
    /\ Reloaded(config')
    /\ event' = "program_set"
    /\ raised' = "none"
    /\ UNCHANGED <<runs, client, closedAt, threadVars>>
    /\ queued' = queued - 1
    /\ UNCHANGED lastSample
    /\ UNCHANGED <<app, programToSet, timeVars, timerActive, styleSheet,
                   advanced>>

\* set_program_from_info with a name ConfigParser.set refuses: set_value
\* raises ValueError after the pending flag was cleared; nothing handles it
\* and the process ends with the file as it was.
ClickRaises(title, pid) ==
    /\ pid # OwnPid /\ title # Empty
    /\ ~SetAccepts(title)
    /\ app' = "crashed"
    /\ raised' = "ValueError in set_value"
    /\ UNCHANGED <<runs, client, closedAt>>
    /\ Exited
    /\ UNCHANGED file

\* set_program_from_info without its test of the name: the empty name is
\* written to the slot and saved.
ClickNoTitleCommitsEmpty(title, pid) ==
    /\ pid # OwnPid /\ title = Empty
    /\ waitingForWindowSelection' = FALSE
    /\ config' = SetValue(config, ProgramKey(programToSet), title)
    /\ file' = SaveConfig(config')
    /\ Reloaded(config')
    /\ event' = "no_title"
    /\ raised' = "none"
    /\ UNCHANGED <<runs, client, closedAt, threadVars>>
    /\ queued' = queued - 1
    /\ lastSample' = NoSample
    /\ UNCHANGED <<app, programToSet, timeVars, timerActive, styleSheet,
                   advanced>>

\* set_program_from_info with no name: the failure is printed.
ClickNoTitle(title, pid) ==
    /\ pid # OwnPid /\ title = Empty
    /\ waitingForWindowSelection' = FALSE
    /\ event' = "no_title"
    /\ raised' = "none"
    /\ UNCHANGED <<runs, client, closedAt, threadVars>>
    /\ queued' = queued - 1
    /\ lastSample' = NoSample
    /\ UNCHANGED <<app, storeVars, cacheVars, programToSet, timeVars,
                   timerActive, styleSheet, advanced>>

SetProgramFromInfo(title, pid) ==
    \/ ClickOnSelf(title, pid)
    \/ ClickCommits(title, pid)
    \/ ClickRaises(title, pid)
    \/ ClickNoTitle(title, pid)

\* TimerApp.on_click while a selection is awaited.
ClickResolved ==
    /\ EventLoopRuns /\ queued > 0
    /\ waitingForWindowSelection
    /\ \E info \in WindowInfos : SetProgramFromInfo(info[1], info[2])

\* TimerApp.setProgram(num), from the menu.
SetProgram(num) ==
    /\ app = "running"
    /\ waitingForWindowSelection' = TRUE
    /\ programToSet' = num
    /\ event' = "none"
    /\ raised' = "none"
    /\ UNCHANGED <<runs, client, closedAt, threadVars>>
    /\ lastSample' = NoSample
    /\ UNCHANGED <<app, storeVars, timeVars, timerActive,
                   cacheVars, styleSheet, queued, advanced>>

\* The parse were it lenient: a missing or non-numeric segment counts as 0
\* and nothing is raised.
ParseTimeLenient(text) ==
    LET parts == Split(text, ":")
        n == [i \in 1..3 |-> IF i <= Len(parts) /\ PyInt(parts[i]).ok
                             THEN PyInt(parts[i]).val ELSE 0]
    IN  [ok |-> TRUE, h |-> n[1], m |-> n[2], s |-> n[3]]

\* h, m, s = map(int, text.split(':'))
ParseTime(text) ==
    LET parts == Split(text, ":")
        n == [i \in 1..Len(parts) |-> PyInt(parts[i])]
        good == Len(parts) = 3 /\ \A i \in 1..Len(parts) : n[i].ok
    IN  [ok |-> good,
         h |-> IF good THEN n[1].val ELSE 0,
         m |-> IF good THEN n[2].val ELSE 0,
         s |-> IF good THEN n[3].val ELSE 0]

\* resumePreviousTime were it to stop the timer as it sets the time.
ResumePreviousTimeStopsTimer ==
    /\ app = "running"
    /\ LET t == ParseTime(lastTime)
       IN  /\ t.ok
           /\ h' = t.h
           /\ m' = t.m
           /\ s' = t.s
    /\ timerActive' = FALSE
    /\ event' = "none"
    /\ raised' = "none"
    /\ lastSample' = NoSample
    /\ UNCHANGED <<runs, client, closedAt, threadVars>>
    /\ UNCHANGED <<app, storeVars, assignVars, cacheVars, styleSheet,
                   queued, advanced>>

\* TimerApp.resumePreviousTime.  With a LastTime that does not parse, the
\* unpacking raises ValueError before h, m or s is assigned; nothing handles
\* it and the process ends.
ResumePreviousTime ==
    /\ app = "running"
    /\ LET t == ParseTime(lastTime)
       IN  IF t.ok
           THEN /\ h' = t.h
                /\ m' = t.m
                /\ s' = t.s
                /\ event' = "none"
                /\ raised' = "none"
                /\ UNCHANGED <<runs, client, closedAt, threadVars>>
                /\ lastSample' = NoSample
                /\ UNCHANGED <<app, storeVars, timerActive, assignVars,
                               cacheVars, styleSheet, queued, advanced>>
           ELSE /\ app' = "crashed"
                /\ raised' = "ValueError in resumePreviousTime"
                /\ UNCHANGED <<runs, client, closedAt>>
                /\ Exited
                /\ UNCHANGED file

\* keyPressEvent were it to redraw the time and leave the flag set.
KeyPressEscapeKeepsPending ==
    /\ app = "running"
    /\ event' = IF waitingForWindowSelection THEN "cancelled" ELSE "none"
    /\ raised' = "none"
    /\ UNCHANGED <<runs, client, closedAt, threadVars>>
    /\ lastSample' = NoSample
    /\ UNCHANGED <<app, storeVars, timeVars, timerActive, assignVars,
                   cacheVars, styleSheet, queued, advanced>>

\* TimerApp.keyPressEvent with the Escape key
KeyPressEscape ==
    /\ app = "running"
    /\ IF waitingForWindowSelection
       THEN /\ waitingForWindowSelection' = FALSE
            /\ event' = "cancelled"
       ELSE /\ waitingForWindowSelection' = waitingForWindowSelection
            /\ event' = "none"
    /\ raised' = "none"
    /\ UNCHANGED <<runs, client, closedAt, threadVars>>
    /\ lastSample' = NoSample
    /\ UNCHANGED <<app, storeVars, timeVars, timerActive,
                   programToSet, cacheVars, styleSheet, queued, advanced>>

\* str.split(): the runs of characters between blanks.
SplitWords(t) == SelectSeq(Split(t, " "), LAMBDA x : x # <<>>)

\* ProgramManagerDialog.updateProgramList: the text of the item shown for
\* slot i, f"Program {i}: {program}".
ItemText(i, program) ==
    <<"P", "r", "o", "g", "r", "a", "m", " ">> \o NatStr(i) \o <<":", " ">>
        \o program

\* deleteProgram: int(selected.text().split(':')[0].split()[1])
ProgramNumber(text) == PyInt(SplitWords(Split(text, ":")[1])[2]).val

\* The slot were it taken from the row of the item, which counts the
\* populated slots only.
SelectedSlotByRow(num, progs) ==
    Cardinality({i \in 1..num : progs[i] # Empty})

\* The slot deleteProgram clears when the item of slot num is selected.
SelectedSlot(num, progs) == ProgramNumber(ItemText(num, progs[num]))

\* deleteProgram without its save_config(): the slot is cleared in memory
\* only.
DeleteProgramUnsaved(num) ==
    /\ app = "running"
    /\ watched_programs[num] # Empty
    /\ config' = SetValue(config,
                          ProgramKey(SelectedSlot(num, watched_programs)), Empty)
    /\ Reloaded(config')
    /\ event' = "none"
    /\ raised' = "none"
    /\ UNCHANGED <<runs, client, closedAt, threadVars>>
    /\ lastSample' = NoSample
    /\ UNCHANGED <<app, file, timeVars, timerActive, assignVars,
                   styleSheet, queued, advanced>>

\* ProgramManagerDialog.deleteProgram with the item of slot num selected
\* (the list shows the populated slots): the slot number is read back from
\* the item's text.
DeleteProgram(num) ==
    /\ app = "running"
    /\ watched_programs[num] # Empty
    /\ config' = SetValue(config,
                          ProgramKey(SelectedSlot(num, watched_programs)), Empty)
    /\ file' = SaveConfig(config')
    /\ Reloaded(config')
    /\ event' = "none"
    /\ raised' = "none"
    /\ UNCHANGED <<runs, client, closedAt, threadVars>>
    /\ UNCHANGED lastSample
    /\ UNCHANGED <<app, timeVars, timerActive, assignVars,
                   styleSheet, queued, advanced>>

\* TimerApp.updateAppearance
UpdateAppearance(alert, active, on, off) ==
    IF alert THEN (IF active THEN on ELSE off) ELSE Empty

\* What the user may leave in the preferences dialog before "Save":
\* <<timeout, colour alert, on colour, off colour>>.
PreferenceChoices ==
    { <<42, FALSE, OnColorDefault, OffColorDefault>> }

\* PreferencesDialog.savePreferences, then showPreferences after the dialog
\* was accepted: the settings are reloaded and the appearance updated.
SavePreferences(p) ==
    /\ app = "running"
    /\ config' = SetValue(SetValue(SetValue(SetValue(config,
                     "Timeout", IntStr(p[1])),
                     "ColorAlert", BoolStr(p[2])),
                     "OnColor", p[3]),
                     "OffColor", p[4])
    /\ file' = SaveConfig(config')
    /\ Reloaded(config')
    /\ styleSheet' = UpdateAppearance(colorAlert', timerActive, onColor', offColor')
    /\ event' = "none"
    /\ raised' = "none"
    /\ UNCHANGED <<runs, client, closedAt, threadVars>>
    /\ lastSample' = NoSample
    /\ UNCHANGED <<app, timeVars, timerActive, assignVars,
                   queued, advanced>>

\* PreferencesDialog.confirmReset answered Yes: resetToDefaults, then
\* savePreferences.
ResetPreferences ==
    SavePreferences(<<TimeoutDefault, TRUE, OnColorDefault, OffColorDefault>>)

\* TimerApp.closeEvent: LastTime is set and saved, the listener is
\* terminated and waited for, the close accepted and the process exits.
CloseEvent ==
    /\ app = "running"
    /\ file' = SaveConfig(SetValue(config, "LastTime", FmtTime(h, m, s)))
    /\ app' = "closed"
    /\ raised' = "none"
    /\ closedAt' = <<h, m, s>>
    /\ UNCHANGED <<runs, client>>
    /\ Exited

Next ==
    \/ StartCorrupt
    \/ StartBadValue
    \/ Start
    \/ Tick
    \/ ListenerClick
    \/ ClickIgnored
    \/ ClickResolved
    \/ \E num \in 1..3 : SetProgram(num)
    \/ ResumePreviousTime
    \/ KeyPressEscape
    \/ \E num \in 1..3 : DeleteProgram(num)
    \/ \E p \in PreferenceChoices : SavePreferences(p)
    \/ ResetPreferences
    \/ CloseEvent

\* The application on a store it wrote itself (or on none).  closeEvent is
\* one step here; SpecClose takes it statement by statement.
Spec == Init /\ [][Next]_vars

\* The application on a store whose LastTime was edited by hand.
SpecEdited == InitEdited /\ [][Next]_vars

\* ------------------------------------------- closeEvent, step by step
\* closeEvent, first statement: set_value('LastTime', "HH:MM:SS").
CloseSetLastTime ==
    /\ app = "running"
    /\ config' = SetValue(config, "LastTime", FmtTime(h, m, s))
    /\ closedAt' = <<h, m, s>>
    /\ app' = "close_set"
    /\ event' = "none"
    /\ raised' = "none"
    /\ lastSample' = NoSample
    /\ UNCHANGED <<runs, client, threadVars>>
    /\ UNCHANGED <<file, timeVars, timerActive, assignVars, cacheVars,
                   styleSheet, queued, advanced>>

\* closeEvent, second statement: save_config().
CloseSaveConfig ==
    /\ app = "close_set"
    /\ file' = SaveConfig(config)
    /\ app' = "close_saved"
    /\ event' = "none"
    /\ raised' = "none"
    /\ lastSample' = NoSample
    /\ UNCHANGED <<runs, client, closedAt, threadVars>>
    /\ UNCHANGED <<config, timeVars, timerActive, assignVars, cacheVars,
                   styleSheet, queued, advanced>>

\* closeEvent, third statement: mouse_listener.terminate().  The QThread
\* blocked in listener.join() is killed, at once or a little later; the
\* with block of run() is not left, so listener.stop() is never called and
\* the pynput thread goes on.
CloseTerminate ==
    /\ app = "close_saved"
    /\ qthread' \in {"terminating", "finished"}
    /\ app' = "close_terminated"
    /\ event' = "none"
    /\ raised' = "none"
    /\ lastSample' = NoSample
    /\ UNCHANGED <<runs, client, closedAt, hook>>
    /\ UNCHANGED <<storeVars, timeVars, timerActive, assignVars, cacheVars,
                   styleSheet, queued, advanced>>

\* closeEvent, fourth statement: mouse_listener.wait() returns when the
\* QThread has finished.
CloseWait ==
    /\ app = "close_terminated"
    /\ qthread' = "finished"
    /\ app' = "close_waited"
    /\ event' = "none"
    /\ raised' = "none"
    /\ lastSample' = NoSample
    /\ UNCHANGED <<runs, client, closedAt, hook>>
    /\ UNCHANGED <<storeVars, timeVars, timerActive, assignVars, cacheVars,
                   styleSheet, queued, advanced>>

\* closeEvent, last statement: event.accept().
CloseAccept ==
    /\ app = "close_waited"
    /\ app' = "accepted"
    /\ event' = "none"
    /\ raised' = "none"
    /\ lastSample' = NoSample
    /\ UNCHANGED <<runs, client, closedAt, threadVars>>
    /\ UNCHANGED <<storeVars, timeVars, timerActive, assignVars, cacheVars,
                   styleSheet, queued, advanced>>

\* main: the last window is closed, app.exec() returns and sys.exit ends the
\* process and every thread in it.
ProcessExit ==
    /\ app = "accepted"
    /\ app' = "closed"
    /\ raised' = "none"
    /\ UNCHANGED <<runs, client, closedAt>>
    /\ Exited
    /\ UNCHANGED file

InitClose == InitWith({MissingFile, SavedFile})

NextClose ==
    \/ Start
    \/ Tick
    \/ \E num \in 1..3 : SetProgram(num)
    \/ ListenerClick
    \/ ClickIgnored
    \/ ClickResolved
    \/ CloseSetLastTime
    \/ CloseSaveConfig
    \/ CloseTerminate
    \/ CloseWait
    \/ CloseAccept
    \/ ProcessExit

\* One session in which the listener's thread keeps running beside the
\* statements of closeEvent.
SpecClose == InitClose /\ [][NextClose]_vars

\* ------------------------------------------------ closing and restarting
\* Files earlier sessions left behind on closing at 00:00:59, 00:59:59 and
\* 99:59:59.
ClosedFiles ==
    { SaveConfig(("LastTime" :> FmtTime(hh, mm, 59)) @@ ("Program1" :> NameA)) :
          <<hh, mm>> \in {<<0, 0>>, <<0, 59>>, <<99, 59>>} }

InitRestart == InitWith({MissingFile} \cup ClosedFiles)

\* Sessions in which the user resumes the previous time and closes, any
\* number of times.
NextRestart ==
    \/ Start
    \/ Restart
    \/ Tick
    \/ ResumePreviousTime
    \/ \E num \in 1..3 : DeleteProgram(num)
    \/ \E p \in PreferenceChoices : SavePreferences(p)
    \/ CloseEvent

SpecRestart == InitRestart /\ [][NextRestart]_vars

\* ------------------------------------------ clicks made before a request
\* MouseListener.on_click in the schedules where the button is pressed while
\* no selection is awaited: the signal is queued for the main thread all the
\* same, and may still be in the queue when setProgram runs.
ListenerClickBeforeRequest ==
    /\ ~waitingForWindowSelection
    /\ ListenerClick

\* Sessions in which the pointer is never pressed while a selection is
\* awaited: a click on_click handles in that interval was made before it.
NextEarlyClicks ==
    \/ Start
    \/ Tick
    \/ ListenerClickBeforeRequest
    \/ ClickIgnored
    \/ ClickResolved
    \/ \E num \in 1..3 : SetProgram(num)
    \/ KeyPressEscape
    \/ \E num \in 1..3 : DeleteProgram(num)
    \/ CloseEvent

SpecEarlyClicks == Init /\ [][NextEarlyClicks]_vars

\* ------------------------------------------------ two executions abreast
\* The handlers of TimerApp as functions of one execution's fields, so that
\* two executions can be given the same input in one step.

\* An execution before its first start on timer.ini f.
RunOff(f) ==
    [app |-> "off", config |-> NoOptions, file |-> f,
     h |-> 0, m |-> 0, s |-> 0, timerActive |-> FALSE,
     waitingForWindowSelection |-> FALSE, programToSet |-> 0,
     idleTime |-> TimeoutDefault,
     watched_programs |-> <<Empty, Empty, Empty>>,
     lastTime |-> LastTimeDefault, colorAlert |-> TRUE,
     onColor |-> OnColorDefault, offColor |-> OffColorDefault,
     styleSheet |-> Empty, advanced |-> 0]

\* The process of r has ended as how: only timer.ini and the record of the
\* elapsed time remain.
ExitedIn(r, how, f) ==
    [RunOff(f) EXCEPT !.app = how, !.h = r.h, !.m = r.m, !.s = r.s,
                      !.advanced = r.advanced]

\* TimerApp.loadConfig in r, on the parser cfg.
LoadConfigIn(r, cfg) ==
    LET c == LoadConfig(cfg)
    IN  [r EXCEPT !.idleTime = c.idleTime,
                  !.watched_programs = c.watched_programs,
                  !.lastTime = c.lastTime,
                  !.colorAlert = c.colorAlert,
                  !.onColor = c.onColor,
                  !.offColor = c.offColor]

\* set_value(s), save_config and loadConfig in r: the parser becomes cfg.
StoredIn(r, cfg) ==
    LoadConfigIn([r EXCEPT !.config = cfg, !.file = SaveConfig(cfg)], cfg)

\* TimerApp.__init__ in r.
StartIn(r) ==
    IF r.app # "off" THEN r
    ELSE IF r.file.state = "corrupt" THEN ExitedIn(r, "crashed", r.file)
    ELSE IF ~LoadConfig(ReadConfig(r.file)).ok
         THEN ExitedIn(r, "crashed", SaveConfig(ReadConfig(r.file)))
    ELSE StoredIn([r EXCEPT !.app = "running", !.h = 0, !.m = 0, !.s = 0,
                            !.timerActive = FALSE,
                            !.waitingForWindowSelection = FALSE,
                            !.programToSet = 0, !.styleSheet = Empty],
                  ReadConfig(r.file))

\* updateTimer were Timeout a grace period in seconds: a sample outside the
\* list turns the timer Idle on that tick only when idleTime is 1.
UpdateTimerWithGrace(r, w) ==
    IF r.app # "running" THEN r
    ELSE LET t == IF r.timerActive THEN IncrementTime(<<r.h, r.m, r.s>>)
                  ELSE <<r.h, r.m, r.s>>
             c == CheckActiveWindow(w, r.watched_programs, r.timerActive,
                                    r.colorAlert, r.onColor, r.offColor,
                                    r.styleSheet)
             stays == ~InWatched(w, r.watched_programs) /\ r.idleTime > 1
         IN  [r EXCEPT !.h = t[1], !.m = t[2], !.s = t[3],
                       !.timerActive = IF stays THEN r.timerActive
                                       ELSE c.timerActive,
                       !.styleSheet = IF stays THEN r.styleSheet
                                      ELSE c.styleSheet,
                       !.advanced = IF r.timerActive THEN @ + 1 ELSE @]

\* TimerApp.updateTimer in r, with the sample w.
UpdateTimerIn(r, w) ==
    IF r.app # "running" THEN r
    ELSE LET t == IF r.timerActive THEN IncrementTime(<<r.h, r.m, r.s>>)
                  ELSE <<r.h, r.m, r.s>>
             c == CheckActiveWindow(w, r.watched_programs, r.timerActive,
                                    r.colorAlert, r.onColor, r.offColor,
                                    r.styleSheet)
         IN  [r EXCEPT !.h = t[1], !.m = t[2], !.s = t[3],
                       !.timerActive = c.timerActive,
                       !.styleSheet = c.styleSheet,
                       !.advanced = IF r.timerActive THEN @ + 1 ELSE @]

\* TimerApp.setProgram(num) in r.
SetProgramIn(r, num) ==
    IF r.app # "running" THEN r
    ELSE [r EXCEPT !.waitingForWindowSelection = TRUE, !.programToSet = num]

\* TimerApp.set_program_from_info in r, as window_info_ready delivers it.
SetProgramFromInfoIn(r, title, pid) ==
    IF ~r.waitingForWindowSelection THEN r
    ELSE LET r1 == [r EXCEPT !.waitingForWindowSelection = FALSE]
         IN  IF pid = OwnPid THEN r1
             ELSE IF title = Empty THEN r1
             ELSE IF ~SetAccepts(title) THEN ExitedIn(r, "crashed", r.file)
             ELSE StoredIn(r1, SetValue(r.config, ProgramKey(r.programToSet),
                                        title))

\* TimerApp.on_click in r: a click is delivered and the probe finds info.
OnClickIn(r, info) ==
    IF r.app # "running" \/ ~r.waitingForWindowSelection THEN r
    ELSE SetProgramFromInfoIn(r, info[1], info[2])

\* TimerApp.keyPressEvent with the Escape key, in r.
KeyPressEscapeIn(r) ==
    IF r.app # "running" THEN r
    ELSE [r EXCEPT !.waitingForWindowSelection = FALSE]

\* TimerApp.resumePreviousTime in r.
ResumePreviousTimeIn(r) ==
    IF r.app # "running" THEN r
    ELSE LET t == ParseTime(r.lastTime)
         IN  IF t.ok THEN [r EXCEPT !.h = t.h, !.m = t.m, !.s = t.s]
             ELSE ExitedIn(r, "crashed", r.file)

\* ProgramManagerDialog.deleteProgram in r, with row num selected.
DeleteProgramIn(r, num) ==
    IF r.app # "running" \/ r.watched_programs[num] = Empty THEN r
    ELSE StoredIn(r, SetValue(r.config,
                              ProgramKey(SelectedSlot(num, r.watched_programs)),
                              Empty))

\* TimerApp.updateAppearance in r.
UpdateAppearanceIn(r) ==
    [r EXCEPT !.styleSheet = UpdateAppearance(r.colorAlert, r.timerActive,
                                              r.onColor, r.offColor)]

\* PreferencesDialog.savePreferences and showPreferences in r.
SavePreferencesIn(r, p) ==
    IF r.app # "running" THEN r
    ELSE UpdateAppearanceIn(
             StoredIn(r, SetValue(SetValue(SetValue(SetValue(r.config,
                             "Timeout", IntStr(p[1])),
                             "ColorAlert", BoolStr(p[2])),
                             "OnColor", p[3]),
                             "OffColor", p[4])))

\* TimerApp.closeEvent in r.
CloseEventIn(r) ==
    IF r.app # "running" THEN r
    ELSE ExitedIn(r, "closed",
                  SaveConfig(SetValue(r.config, "LastTime",
                                      FmtTime(r.h, r.m, r.s))))

\* Values of the Timeout spin box (1 to 3600), which are also what a
\* Timeout line of timer.ini holds.
TimeoutValues == {1, 42}

\* timer.ini f with its Timeout line set to t.
WithTimeout(f, t) == SaveConfig(SetValue(ReadConfig(f), "Timeout", IntStr(t)))

\* Two executions about to start on files that differ in Timeout only: the
\* first on a file without the line, the second on the same file with it.
InitRuns ==
    /\ InitApp({MissingFile})
    /\ \E f \in {MissingFile, SavedFile} : \E t \in TimeoutValues :
           runs = <<RunOff(f), RunOff(WithTimeout(f, t))>>

\* The variables of the one execution the other specifications follow.
oneRun == <<app, config, file, h, m, s, timerActive,
            waitingForWindowSelection, programToSet, idleTime,
            watched_programs, lastTime, colorAlert, onColor, offColor,
            styleSheet, queued, advanced, lastSample, event, raised, client,
            closedAt, qthread, hook>>

\* Some execution can take an input.
Live == \E i \in 1..2 : runs[i].app = "running"

\* Both executions are started.
RunsStart ==
    /\ \E i \in 1..2 : runs[i].app = "off"
    /\ runs' = [i \in 1..2 |-> StartIn(runs[i])]
    /\ UNCHANGED oneRun

\* Both QTimers fire, the same name being in the foreground.
RunsTick ==
    /\ Live
    /\ \A i \in 1..2 : runs[i].timerActive => runs[i].advanced < MaxAdvance
    /\ \E w \in ActiveWindowTitles :
           runs' = [i \in 1..2 |-> UpdateTimerIn(runs[i], w)]
    /\ UNCHANGED oneRun

\* The same menu entry "Program num" is chosen in both.
RunsSetProgram ==
    /\ Live
    /\ \E num \in 1..3 :
           runs' = [i \in 1..2 |-> SetProgramIn(runs[i], num)]
    /\ UNCHANGED oneRun

\* The same click is delivered in both and probes the same window.
RunsClick ==
    /\ Live
    /\ \E info \in WindowInfos :
           runs' = [i \in 1..2 |-> OnClickIn(runs[i], info)]
    /\ UNCHANGED oneRun

\* Escape is pressed in both.
RunsEscape ==
    /\ Live
    /\ runs' = [i \in 1..2 |-> KeyPressEscapeIn(runs[i])]
    /\ UNCHANGED oneRun

\* "Resume previous time" is chosen in both.
RunsResume ==
    /\ Live
    /\ runs' = [i \in 1..2 |-> ResumePreviousTimeIn(runs[i])]
    /\ UNCHANGED oneRun

\* The same row of the program manager is deleted in both.
RunsDelete ==
    /\ Live
    /\ \E num \in 1..3 :
           /\ \E i \in 1..2 : runs[i].watched_programs[num] # Empty
           /\ runs' = [i \in 1..2 |-> DeleteProgramIn(runs[i], num)]
    /\ UNCHANGED oneRun

\* Preferences are saved in both, with the same choices but for the
\* Timeout, which is t[1] in the first and t[2] in the second.
RunsSavePreferences ==
    /\ Live
    /\ \E p \in PreferenceChoices : \E t \in TimeoutValues \X TimeoutValues :
           runs' = [i \in 1..2 |->
                       SavePreferencesIn(runs[i], <<t[i], p[2], p[3], p[4]>>)]
    /\ UNCHANGED oneRun

\* Both windows are closed.
RunsClose ==
    /\ Live
    /\ runs' = [i \in 1..2 |-> CloseEventIn(runs[i])]
    /\ UNCHANGED oneRun

NextRuns ==
    \/ RunsStart
    \/ RunsTick
    \/ RunsSetProgram
    \/ RunsClick
    \/ RunsEscape
    \/ RunsResume
    \/ RunsDelete
    \/ RunsSavePreferences
    \/ RunsClose

\* Two executions given the same ticks, samples, clicks and commands, whose
\* Timeout differs in the file they start from and in what is saved through
\* the preferences.
SpecRuns == InitRuns /\ [][NextRuns]_vars

\* ------------------------------------------- ConfigManager on its own
\* Round trips a caller may ask of one store.
MaxTrips == 2

\* Values a caller may hand to set_value: of the type of the key's default.
IntValues == {0, 42, 0 - 5}
TextValues == {Empty, NameA, NamePct, <<"%", "%">>, <<" ", "a">>}

\* The keys of each type and the defaults the application passes
\* (TimerApp.loadConfig, ConfigManager.get_all_programs).
IntKeys == {"Timeout"}
BoolKeys == {"ColorAlert"}
TextKeys == Keys \ (IntKeys \cup BoolKeys)

DefaultOf(key) ==
    CASE key = "Timeout" -> TimeoutDefault
      [] key = "ColorAlert" -> TRUE
      [] key = "LastTime" -> LastTimeDefault
      [] key = "OnColor" -> OnColorDefault
      [] key = "OffColor" -> OffColorDefault
      [] OTHER -> Empty

KindOf(key) ==
    IF key \in BoolKeys THEN "bool" ELSE IF key \in IntKeys THEN "int" ELSE "str"

\* str(value)
Str(kind, v) ==
    CASE kind = "bool" -> BoolStr(v) [] kind = "int" -> IntStr(v) [] OTHER -> v

\* ConfigManager.get_value: the branch is chosen by the type of the default.
GetValue(cfg, key, default) ==
    CASE KindOf(key) = "bool" -> GetBool(cfg, key, default)
      [] KindOf(key) = "int" -> GetInt(cfg, key, default)
      [] OTHER -> GetStr(cfg, key, default)

appVars == <<app, h, m, s, timerActive, waitingForWindowSelection,
             programToSet, idleTime, watched_programs, lastTime, colorAlert,
             onColor, offColor, styleSheet, queued, advanced, lastSample,
             event, raised, closedAt, qthread, hook, runs>>

\* No timer.ini, no TimerApp, and a caller about to construct a
\* ConfigManager.
InitStore == InitWith({MissingFile})

\* ConfigManager.__init__ and load_config: timer.ini is read, 'section'
\* ensured and the file written.
load_config ==
    /\ client.pc \in {"none", "saved"}
    /\ file.state # "corrupt"
    /\ config' = ReadConfig(file)
    /\ file' = SaveConfig(config')
    /\ client' = IF client.pc = "none"
                 THEN [pc |-> "fresh", trips |-> 0]
                 ELSE [client EXCEPT !.pc = "loaded"]
    /\ UNCHANGED appVars

\* get_value(key, default) on the store as first constructed.
get_value_unset(key) ==
    /\ client.pc = "fresh"
    /\ client' = [pc |-> "got_unset", trips |-> 0, key |-> key,
                  got |-> GetValue(config, key, DefaultOf(key))]
    /\ UNCHANGED <<appVars, storeVars>>

\* set_value(key, v): config.set('section', key, str(v)), which raises
\* ValueError when the text holds a '%' that is not doubled.
set_value(key, v) ==
    /\ client.pc \in {"fresh", "got_unset", "got"}
    /\ client.trips < MaxTrips
    /\ IF SetAccepts(Str(KindOf(key), v))
       THEN /\ config' = SetValue(config, key, Str(KindOf(key), v))
            /\ client' = [pc |-> "set", trips |-> client.trips + 1,
                          key |-> key, val |-> v]
       ELSE /\ config' = config
            /\ client' = [pc |-> "raised", trips |-> client.trips + 1,
                          key |-> key, val |-> v]
    /\ UNCHANGED <<appVars, file>>

\* save_config()
save_config ==
    /\ client.pc = "set"
    /\ file' = SaveConfig(config)
    /\ client' = [client EXCEPT !.pc = "saved"]
    /\ UNCHANGED <<appVars, config>>

\* get_value(key, default) for the key just set, on the store read back
\* from the file.
get_value ==
    /\ client.pc = "loaded"
    /\ client' = [pc |-> "got", trips |-> client.trips,
                  key |-> client.key, val |-> client.val,
                  got |-> GetValue(config, client.key, DefaultOf(client.key))]
    /\ UNCHANGED <<appVars, storeVars>>

NextStore ==
    \/ load_config
    \/ \E key \in Keys : get_value_unset(key)
    \/ \E key \in IntKeys, v \in IntValues : set_value(key, v)
    \/ \E key \in BoolKeys, v \in BOOLEAN : set_value(key, v)
    \/ \E key \in TextKeys, v \in TextValues : set_value(key, v)
    \/ save_config
    \/ get_value

\* A caller that sets a value, saves, constructs a new ConfigManager on the
\* same file and gets the value.
SpecStore == InitStore /\ [][NextStore]_vars

\* ------------------------------------------------ load_config repeated
\* timer.ini as a first load may find it: absent, written by the
\* application, edited by hand, unparsable, or with blanks around a value.
FilesToLoad ==
    InitialFiles \cup EditedFiles
        \cup { SaveConfig(("Program2" :> <<" ", " ", "a", " ">>)
                          @@ ("LastTime" :> LastTimeDefault)) }

InitLoad == InitWith(FilesToLoad)

\* ConfigManager.__init__ and load_config on an unparsable timer.ini:
\* config.read raises before the section is added or the file written.
load_config_raises ==
    /\ client.pc = "none"
    /\ file.state = "corrupt"
    /\ client' = [pc |-> "load_raised", trips |-> 0]
    /\ UNCHANGED <<appVars, storeVars>>

\* ConfigManager.load_config called once more on the same ConfigManager:
\* config.read overlays what the file holds on what the parser holds, the
\* section is there already, and the file is written.
load_config_again ==
    /\ client.pc \in {"fresh", "loaded"}
    /\ config' = ReadConfig(file) @@ config
    /\ file' = SaveConfig(config')
    /\ client' = [client EXCEPT !.pc = "reloaded"]
    /\ UNCHANGED appVars

NextLoad ==
    \/ NextStore
    \/ load_config_raises
    \/ load_config_again

\* A caller that loads, sets and saves as in SpecStore and may load twice
\* in a row.
SpecLoad == InitLoad /\ [][NextLoad]_vars

\* ------------------------------------------------------------ the timer
\* C1: a tick adds exactly one second to elapsed when the timer was Running
\* as the tick fired and nothing otherwise, so elapsed never decreases.
C1_TickAddsOneIffRunning ==
    [][\A w \in ActiveWindowTitles :
          UpdateTimer(w) =>
              Elapsed(h', m', s')
                  = Elapsed(h, m, s) + (IF timerActive THEN 1 ELSE 0)]_vars

\* A tick has taken elapsed from 00:59:75, resumed from an edited LastTime,
\* to 01:00:00.
C1_ElapsedFellBack ==
    /\ app = "running"
    /\ lastTime = <<"0", "0", ":", "5", "9", ":", "7", "5">>
    /\ h = 1 /\ m = 0 /\ s = 0
    /\ advanced = 1

\* C2: after a tick whose foreground sample is the empty string the timer
\* is Idle, whatever the three slots hold.
C2_EmptySampleIsIdle ==
    [][UpdateTimer(Empty) => ~timerActive']_vars

\* A tick with an empty sample has left the timer Running, no slot being set.
C2_RunningOnEmptySample ==
    /\ app = "running"
    /\ lastSample = <<Empty>>
    /\ timerActive
    /\ event = "activated"
    /\ watched_programs = <<Empty, Empty, Empty>>

\* C3: after a tick whose sample is a non-empty name the timer is Running
\* if and only if that name equals, as a whole string, one of the three
\* slots; the state before the tick plays no part.
C3_RunningIffExactMatch ==
    [][\A w \in ProcessNames :
          UpdateTimer(w) =>
              (timerActive' <=> \E i \in 1..3 : watched_programs[i] = w)]_vars

\* A tick sampled "a%" against the slots <<"a", "", "">> and turned the
\* Running timer Idle: the slot is a proper prefix of the sample.
C3_ProperPrefixIsNoMatch ==
    /\ app = "running"
    /\ lastSample = <<NamePct>>
    /\ watched_programs = <<NameA, Empty, Empty>>
    /\ ~timerActive
    /\ event = "deactivated"

\* C4: a tick reports a transition (and swaps the colour) exactly when it
\* changes timerActive, "activated" on Idle to Running and "deactivated" on
\* Running to Idle; a tick that leaves the state as it was reports nothing
\* and leaves the colour alone.
C4_TransitionOncePerChange ==
    [][\A w \in ActiveWindowTitles :
          UpdateTimer(w) =>
              /\ (event' = "activated") <=> (~timerActive /\ timerActive')
              /\ (event' = "deactivated") <=> (timerActive /\ ~timerActive')
              /\ event' \in {"activated", "deactivated", "none"}
              /\ (timerActive' = timerActive) => (styleSheet' = styleSheet)]_vars

\* A tick found the watched process in front while the timer was already
\* Running: it added its second and reported nothing.
C4_SecondMatchReportsNothing ==
    /\ app = "running"
    /\ lastSample = <<NameA>>
    /\ watched_programs[1] = NameA
    /\ timerActive
    /\ advanced = 1
    /\ s = 1
    /\ event = "none"
    /\ queued = 0
    /\ ~waitingForWindowSelection

\* --------------------------------------------------- resuming the last time
\* A text of the shape DD:DD:DD, and the three numbers it spells.
IsHMS(t) ==
    /\ Len(t) = 8
    /\ t[3] = ":" /\ t[6] = ":"
    /\ \A i \in {1, 2, 4, 5, 7, 8} : IsDigit(t[i])

TwoDigits(t, i) == DigitVal(t[i]) * 10 + DigitVal(t[i + 1])

\* A text with other than two ':', or with a segment that is empty or holds
\* a character that is no digit, sign or blank.
IsMalformedTime(t) ==
    \/ Cardinality({i \in 1..Len(t) : t[i] = ":"}) # 2
    \/ \E i \in 1..Len(t) : ~IsDigit(t[i]) /\ t[i] \notin {":", "-", "+", " "}
    \/ t # <<>> /\ (t[1] = ":" \/ t[Len(t)] = ":")
    \/ \E i \in 1..(Len(t) - 1) : t[i] = ":" /\ t[i + 1] = ":"

\* C5: resumePreviousTime with a well-formed HH:MM:SS text sets h, m and s
\* to exactly its three numbers, whatever they were; with a malformed text
\* (other than three segments, or a segment that is no number) it raises
\* and h, m and s are all as they were.
C5_ResumeSetsOrRejects ==
    [][ResumePreviousTime =>
          /\ IsHMS(lastTime) =>
                 /\ h' = TwoDigits(lastTime, 1)
                 /\ m' = TwoDigits(lastTime, 4)
                 /\ s' = TwoDigits(lastTime, 7)
                 /\ raised' = "none"
                 /\ UNCHANGED client
          /\ IsMalformedTime(lastTime) =>
                 /\ raised' = "ValueError in resumePreviousTime"
                 /\ UNCHANGED client
                 /\ UNCHANGED <<h, m, s>>]_vars

\* "Resume previous time" was chosen with the timer at 00:00:01 and a
\* LastTime of "1:2": the ValueError ended the process with h, m and s as
\* they were.
C5_MalformedLeftElapsedAlone ==
    /\ app = "crashed"
    /\ raised = "ValueError in resumePreviousTime"
    /\ "LastTime" \in DOMAIN file.kv
    /\ file.kv["LastTime"] = <<"1", ":", "2">>
    /\ h = 0 /\ m = 0 /\ s = 1

\* ------------------------------------------------------ assigning a slot
\* C6: a click that resolves to the application's own pid while an
\* assignment is pending, whatever the resolved name, produces the
\* self-selection rejection, clears pending and leaves the three slots, the
\* configuration and timer.ini as they were.
C6_SelfSelectionRejected ==
    [][\A n \in ProcessNames \cup {Empty} :
          (ClickResolved /\ SetProgramFromInfo(n, OwnPid)) =>
              /\ event' = "invalid_selection"
              /\ ~waitingForWindowSelection'
              /\ app' = "running"
              /\ UNCHANGED <<watched_programs, config, file>>]_vars

\* The rejection was produced for slot 2 with slot 1 already holding "a".
C6_RejectedWithSlotsKept ==
    /\ app = "running"
    /\ event = "invalid_selection"
    /\ programToSet = 2
    /\ ~waitingForWindowSelection
    /\ watched_programs = <<NameA, Empty, Empty>>

\* C7: a click that resolves to a non-empty name and a pid other than the
\* application's own while an assignment to slot n is pending makes slot n
\* that name, in memory and in timer.ini, and clears pending.
C7_ClickCommitsName ==
    [][\A n \in ProcessNames :
          (ClickResolved /\ SetProgramFromInfo(n, OtherPid)) =>
              /\ watched_programs'[programToSet] = n
              /\ ProgramKey(programToSet) \in DOMAIN ReadConfig(file')
              /\ GetStr(ReadConfig(file'), ProgramKey(programToSet), Empty)
                     = [ok |-> TRUE, val |-> n]
              /\ ~waitingForWindowSelection']_vars

\* The click resolved to "a%": set_value raised and the process ended with
\* no Program option written.
C7_NameWithPercentRaised ==
    /\ app = "crashed"
    /\ raised = "ValueError in set_value"
    /\ file.state = "ok"
    /\ \A i \in 1..3 : ProgramKey(i) \notin DOMAIN file.kv

\* The watch-list has three slots, each a text, and a slot whose option is
\* not set is the empty string.
ThreeSlots ==
    /\ Len(watched_programs) = 3
    /\ \A i \in 1..3 :
           /\ watched_programs[i] \in Seq({"a", "%"})
           /\ (ProgramKey(i) \notin DOMAIN config) => (watched_programs[i] = Empty)

\* C8: the watch-list has exactly three slots in every state, unset slots
\* being the empty string; deleteProgram on slot n leaves slot n empty, in
\* memory and in timer.ini, so that a configuration read back from the file
\* reports slot n empty.
C8_ThreeSlotsAndDeletePersists ==
    [][/\ ThreeSlots
       /\ ThreeSlots'
       /\ \A n \in 1..3 :
              DeleteProgram(n) =>
                  /\ watched_programs'[n] = Empty
                  /\ ProgramKey(n) \in DOMAIN ReadConfig(file')
                  /\ GetAllPrograms(ReadConfig(file'))[n]
                         = [ok |-> TRUE, val |-> Empty]
                  /\ \A i \in (1..3) \ {n} :
                         watched_programs'[i] = watched_programs[i]]_vars

\* Slot 2 was populated and then deleted: timer.ini holds an empty Program2
\* beside the Program1 that stayed.
C8_DeletedSlotSaved ==
    /\ app = "running"
    /\ watched_programs = <<NameA, Empty, Empty>>
    /\ {"Program1", "Program2"} \subseteq DOMAIN file.kv
    /\ file.kv["Program2"] = Empty
    /\ file.kv["Program1"] = NameA

\* --------------------------------------------------- the configuration
\* C9: set_value(key, v), save_config, a fresh load_config and get_value(key,
\* default) give back v, for every key and every value of its type, and no
\* step of the round trip raises; on a store first constructed without a
\* file get_value(key, default) is the default.
C9_RoundTrip ==
    /\ client.pc # "raised"
    /\ client.pc = "got" =>
           client.got = [ok |-> TRUE, val |-> client.val]
    /\ client.pc = "got_unset" =>
           client.got = [ok |-> TRUE, val |-> DefaultOf(client.key)]

\* The text "%%" was set, saved and read back by a new ConfigManager as "%".
C9_PercentHalved ==
    /\ client.pc = "got"
    /\ client.key = "Program1"
    /\ client.val = <<"%", "%">>
    /\ client.got = [ok |-> TRUE, val |-> <<"%">>]

\* ------------------------------------------------------------ cancelling
\* C10: Escape while an assignment is pending clears pending and leaves the
\* watch-list, the configuration, timer.ini, elapsed and the Running/Idle
\* state as they were; Escape while nothing is pending changes none of the
\* application's fields; and a click delivered while nothing is pending
\* leaves the watch-list and the configuration alone.
C10_EscapeCancels ==
    [][/\ KeyPressEscape =>
              /\ ~waitingForWindowSelection'
              /\ UNCHANGED <<watched_programs, config, file, h, m, s,
                             timerActive>>
              /\ ~waitingForWindowSelection =>
                     UNCHANGED <<app, storeVars, timeVars, timerActive,
                                 assignVars, cacheVars, styleSheet, queued>>
       /\ (/\ ~waitingForWindowSelection
           /\ app = "running" /\ app' = "running"
           /\ queued' = queued - 1) =>
              UNCHANGED <<watched_programs, config, file,
                          waitingForWindowSelection>>]_vars

\* Escape cancelled the assignment to slot 1 with a click still queued for
\* delivery.
C10_CancelledBeforeClick ==
    /\ app = "running"
    /\ event = "cancelled"
    /\ ~waitingForWindowSelection
    /\ programToSet = 1
    /\ queued = 1
    /\ watched_programs = <<Empty, Empty, Empty>>

\* --------------------------------------------------- closing and restarting
\* C11: when closeEvent ran with elapsed (h, m, s), then after the next
\* start resumePreviousTime sets elapsed to exactly (h, m, s), for every
\* elapsed the ticks reach, hours of 100 and more included.
C11_CloseRestartResume ==
    [][(ResumePreviousTime /\ closedAt # NoClose) =>
           /\ <<h', m', s'>> = closedAt
           /\ raised' = "none"]_vars

\* Closed at 100:00:00, started again and resumed: elapsed is 100:00:00.
C11_ResumedHundredHours ==
    /\ app = "running"
    /\ closedAt = <<100, 0, 0>>
    /\ h = 100 /\ m = 0 /\ s = 0

\* Seconds and minutes are below 60 and nothing is negative.
TimeInRange ==
    /\ 0 <= s /\ s < 60
    /\ 0 <= m /\ m < 60
    /\ 0 <= h

\* C14: in every state reached from a store the application made itself,
\* across ticks, resumePreviousTime, closing and restarting, 0 <= s < 60,
\* 0 <= m < 60 and 0 <= h; and a tick that fires while Running takes
\* (h, m, s) to the triple that counts exactly one second more.
C14_CarryArithmetic ==
    [][/\ TimeInRange
       /\ TimeInRange'
       /\ \A w \in ActiveWindowTitles :
              (UpdateTimer(w) /\ timerActive) =>
                  Elapsed(h', m', s') = Elapsed(h, m, s) + 1]_vars

\* A Running tick took 00:59:59, resumed from the file, to 01:00:00.
C14_CarriedIntoHours ==
    /\ app = "running"
    /\ lastTime = FmtTime(0, 59, 59)
    /\ h = 1 /\ m = 0 /\ s = 0
    /\ advanced = 1
    /\ event = "none"


\* C12: reading the configuration is never fatal: whatever timer.ini holds
\* (nothing, text that cannot be parsed, a Timeout that is not a number),
\* starting the application completes load_config and get_value without an
\* error, the application runs, and a key whose value cannot be coerced
\* resolves to the caller's default.
C12_ReadFailureNotFatal ==
    [][(app = "off" /\ app' # "off") =>
           /\ app' = "running"
           /\ raised' = "none"
           /\ (~GetInt(ReadConfig(file), "Timeout", TimeoutDefault).ok =>
                   idleTime' = TimeoutDefault)]_vars

\* A start on a timer.ini whose Timeout is not a number ended the process
\* with the ValueError of getint.
C12_BadTimeoutEndedProcess ==
    /\ app = "crashed"
    /\ raised = "ValueError in loadConfig"
    /\ "Timeout" \in DOMAIN file.kv


\* C13: in every state timerActive is true exactly when the most recently
\* sampled foreground name matches an entry of the watch-list: right after
\* a tick, and also after a commit or a slot clear that follows the tick,
\* where the sample is the tick's and the list is the list as it now is.
C13_ActiveIffLastSampleMatches ==
    (app = "running" /\ lastSample # NoSample)
        => (timerActive <=> InWatched(lastSample[1], watched_programs))

\* Slot 1 was cleared while Running on the sample 'a': the timer is still
\* Running although 'a' is no longer in the list.
C13_RunningAfterSlotCleared ==
    /\ app = "running"
    /\ timerActive
    /\ lastSample = <<NameA>>
    /\ ~InWatched(NameA, watched_programs)


\* C15: while an assignment is pending the focus checks are paused: a tick
\* that fires while waitingForWindowSelection is set does not compare a
\* sample with the watch-list and leaves the timer Running or Idle as it was.
C15_PendingPausesFocusCheck ==
    [][(waitingForWindowSelection /\ Tick) =>
           /\ timerActive' = timerActive
           /\ event' = "none"]_vars

\* A tick that fired while an assignment was pending turned the timer on.
C15_ActivatedWhilePending ==
    /\ app = "running"
    /\ waitingForWindowSelection
    /\ timerActive
    /\ event = "activated"


\* closeEvent's own order: the listener is signalled only with LastTime set
\* to the elapsed and saved, and the close is accepted only with the
\* QThread finished.
CloseOrderKept ==
    /\ app \in {"close_terminated", "close_waited", "accepted"}
           => /\ "LastTime" \in DOMAIN file.kv
              /\ file.kv["LastTime"] = FmtTime(closedAt[1], closedAt[2], closedAt[3])
              /\ closedAt = <<h, m, s>>
    /\ app \in {"off", "running", "close_set", "close_saved"}
           => qthread \notin {"terminating", "finished"}
    /\ app = "accepted" => qthread = "finished"

\* C16: on closeEvent the elapsed is written to LastTime and saved before
\* the listener is stopped, the close is accepted only after the listener
\* was terminated and waited for, and once the close is accepted the
\* listener is not running and no further click is emitted or delivered.
C16_ShutdownOrdering ==
    [][/\ CloseOrderKept'
       /\ app' = "accepted" => hook' # "running"
       /\ app = "accepted" =>
              ~(ListenerClick \/ ClickIgnored \/ ClickResolved)]_vars

\* After the close was accepted, with the QThread finished, the pynput
\* thread still runs and a click it emitted has set a slot and rewritten
\* timer.ini.
C16_ClickCommittedAfterAccept ==
    /\ app = "accepted"
    /\ qthread = "finished"
    /\ hook = "running"
    /\ event = "program_set"
    /\ watched_programs[1] = NameA


C18_LoadIdempotent ==
    [][/\ (load_config \/ load_config_again) =>
              /\ file'.state = "ok"
              /\ file'.kv = config'
              /\ DOMAIN file.kv \subseteq DOMAIN config'
       /\ load_config_again =>
              /\ DOMAIN config \subseteq DOMAIN config'
              /\ config' = config
              /\ file' = file]_vars

\* The file that held '  a ' for Program2 was loaded twice: parser and file
\* both hold 'a'.
C18_PaddedValueLoadedTwice ==
    /\ client.pc = "reloaded"
    /\ client.trips = 0
    /\ "Program2" \in DOMAIN config
    /\ config["Program2"] = NameA
    /\ file = SaveConfig(config)


\* C19: while the application runs, elapsed is changed only by a tick and
\* by resumePreviousTime, and timerActive only by a tick: setProgram, a
\* delivered click whatever its outcome, the Escape key, deleteProgram and
\* saving or resetting the preferences leave h, m, s and timerActive as
\* they were, and resumePreviousTime leaves timerActive, the pending flag,
\* the slot to set and the watch-list as they were.  (Stated from the
\* change: a step that changes one of them is none of those handlers.)
C19_OnlyTickAndResumeWrite ==
    [][(app = "running" /\ app' = "running") =>
           /\ (<<h', m', s', timerActive'>> # <<h, m, s, timerActive>>) =>
                  ~(\/ \E num \in 1..3 : SetProgram(num)
                    \/ ClickIgnored
                    \/ ClickResolved
                    \/ KeyPressEscape
                    \/ \E num \in 1..3 : DeleteProgram(num)
                    \/ \E p \in PreferenceChoices : SavePreferences(p)
                    \/ ResetPreferences)
           /\ (<<h', m', s'>> # <<h, m, s>>) => (Tick \/ ResumePreviousTime)
           /\ (timerActive' # timerActive) => Tick
           /\ (<<timerActive', waitingForWindowSelection', programToSet',
                 watched_programs'>>
                   # <<timerActive, waitingForWindowSelection, programToSet,
                       watched_programs>>) => ~ResumePreviousTime]_vars

\* resumePreviousTime set 00:59:59 while the timer was Running on slot 1
\* and an assignment to slot 2 was pending: all three are as they were.
C19_ResumedWhileRunningAndPending ==
    /\ app = "running"
    /\ h = 0 /\ m = 59 /\ s = 59
    /\ advanced = 0
    /\ timerActive
    /\ waitingForWindowSelection
    /\ programToSet = 2
    /\ watched_programs = <<NameA, Empty, Empty>>
    /\ event = "none"
    /\ lastSample = NoSample


\* C20: while an assignment is pending no second setProgram takes effect:
\* from the setProgram that set the pending flag until a click consumes the
\* request or Escape cancels it, programToSet is the slot that setProgram
\* was given, and a commit writes that slot.
C20_PendingSlotFixed ==
    [][waitingForWindowSelection =>
           /\ waitingForWindowSelection' => programToSet' = programToSet
           /\ (event' = "program_set") =>
                  \A i \in 1..3 :
                      i # programToSet => watched_programs'[i] = watched_programs[i]]_vars


\* C21: the first click delivered while an assignment is pending consumes
\* it whatever the outcome: after the click is handled the pending flag is
\* false, a commit happens only on a pending request and ends it (so one
\* setProgram leads to one commit at most), and a click delivered while
\* nothing is pending changes neither the watch-list, the store, the file,
\* the pending flag nor the timer.
C21_FirstClickConsumes ==
    [][/\ (queued' < queued /\ ClickResolved) => ~waitingForWindowSelection'
       /\ (event' = "program_set") =>
              /\ waitingForWindowSelection
              /\ ~waitingForWindowSelection'
       /\ (queued' < queued /\ ClickIgnored) =>
              UNCHANGED <<watched_programs, config, file, assignVars,
                          timerActive, h, m, s>>]_vars

\* A click committed 'a' to slot 2 and the request is no longer pending.
C21_CommittedAndConsumed ==
    /\ app = "running"
    /\ event = "program_set"
    /\ programToSet = 2
    /\ watched_programs[2] = NameA
    /\ ~waitingForWindowSelection


\* A click delivered while pending whose probe raised (the pair ("", 0)) or
\* found a process of another pid with an empty name.
ProbeGaveNoName ==
    /\ queued' < queued
    /\ waitingForWindowSelection
    /\ \E info \in WindowInfos :
           /\ info[1] = Empty
           /\ info[2] # OwnPid
           /\ SetProgramFromInfo(info[1], info[2])

\* C22: when the probe of the clicked point fails while an assignment is
\* pending (get_window_info reports ("", 0)), or yields an empty name with
\* another process's pid, nothing is raised and the application goes on:
\* the pending flag is false and the three slots, the store and timer.ini
\* are as they were.
C22_FailedProbeClearsPending ==
    [][ProbeGaveNoName =>
           /\ app' = app
           /\ raised' = "none"
           /\ ~waitingForWindowSelection'
           /\ UNCHANGED <<watched_programs, config, file>>]_vars

\* The probe failed on a request to reassign slot 1, which held 'a': the
\* failure was reported, nothing is pending and slot 1 still holds 'a'.
C22_FailedProbeKeptSlot ==
    /\ app = "running"
    /\ event = "no_title"
    /\ ~waitingForWindowSelection
    /\ programToSet = 1
    /\ watched_programs[1] = NameA
    /\ "Program1" \in DOMAIN file.kv
    /\ file.kv["Program1"] = NameA


\* C23: slot indices are stable: a commit to slot n and the clearing of
\* slot n change slot n and no other slot; names may repeat, and while any
\* slot holds a name (for instance after the other slot that held the same
\* name was cleared) a tick that samples the name leaves the timer Running.
C23_OnlySlotNChanges ==
    [][/\ (app = "running" /\ app' = "running"
              /\ watched_programs' # watched_programs) =>
              \E n \in 1..3 :
                  /\ \A i \in 1..3 :
                         i # n => watched_programs'[i] = watched_programs[i]
                  /\ \/ DeleteProgram(n) /\ watched_programs'[n] = Empty
                     \/ /\ event' = "program_set"
                        /\ n = programToSet
                        /\ watched_programs'[n] # Empty
       /\ \A n \in 1..3 :
              (file' # file /\ DeleteProgram(n)) =>
                  watched_programs' = [watched_programs EXCEPT ![n] = Empty]
       /\ \A w \in ProcessNames :
              (UpdateTimer(w) /\ \E i \in 1..3 : watched_programs[i] = w) =>
                  timerActive']_vars

\* Slot 2, which had been set, was cleared; slot 3 holds 'a', and a tick
\* sampling 'a' has turned the timer on.
C23_DuplicateStillWatched ==
    /\ app = "running"
    /\ watched_programs = <<Empty, Empty, NameA>>
    /\ lastSample = <<NameA>>
    /\ event = "activated"
    /\ timerActive
    /\ "Program2" \in DOMAIN config
    /\ config["Program2"] = Empty


\* Program1..Program3 as get_all_programs reads them from a parser.
SlotsOf(cfg) == [i \in 1..3 |-> GetAllPrograms(cfg)[i].val]

\* C24: in every state of the running application, that is after every
\* completed commit, slot clearing and saving or resetting of preferences,
\* the three views agree: the cached watched_programs equals Program1..3 of
\* the parser, and timer.ini exists and holds exactly the parser's options.
C24_ThreeViewsAgree ==
    app = "running" =>
        /\ watched_programs = SlotsOf(config)
        /\ file = SaveConfig(config)

\* After the preferences were saved and 'a' was committed to slot 3, the
\* cache, the parser and the file all hold 'a' for slot 3.
C24_CommitSeenEverywhere ==
    /\ app = "running"
    /\ event = "program_set"
    /\ idleTime = 42
    /\ watched_programs[3] = NameA
    /\ "Program3" \in DOMAIN config
    /\ config["Program3"] = NameA
    /\ "Program3" \in DOMAIN file.kv
    /\ file.kv["Program3"] = NameA

\* C25: only a click made after setProgram can resolve the assignment.  In
\* sessions where the pointer is never pressed while a selection is awaited,
\* every click on_click handles was made before the request it meets, so no
\* handled click may write a slot, change the watch-list or clear the pending
\* flag.
C25_EarlyClickResolvesNothing ==
    [][(queued' < queued /\ app' = "running") =>
           /\ event' # "program_set"
           /\ UNCHANGED <<watched_programs, config, file,
                          waitingForWindowSelection>>]_vars

\* A click made before setProgram(1) has set slot 1 to 'a' and ended the
\* request.
C25_EarlyClickCommitted ==
    /\ app = "running" /\ event = "program_set" /\ programToSet = 1
    /\ watched_programs = <<NameA, Empty, Empty>>
    /\ ~waitingForWindowSelection /\ queued = 0

\* What the claim compares between two executions: the process being up,
\* elapsed, Running/Idle, the pending flag and its slot, the watch-list.
Observed(r) ==
    <<r.app, r.h, r.m, r.s, r.timerActive, r.waitingForWindowSelection,
      r.programToSet, r.watched_programs>>

\* C26: the Timeout setting does not influence the timer.  Two executions
\* given the same ticks, samples, clicks and commands, which start from files
\* that differ in Timeout only and save different Timeouts through the
\* preferences, have the same elapsed time, Running/Idle state, pending flag
\* and watch-list after every step.
C26_TimeoutDoesNotInfluence ==
    \A i, j \in DOMAIN runs : Observed(runs[i]) = Observed(runs[j])

\* The two executions saved different Timeouts through the preferences (1
\* in the first, 42 in the second) and cache them; both are up, the first is
\* Running with a second counted and 'a' in slot 2.
C26_DifferentTimeoutsSameTimer ==
    /\ runs # NoRuns
    /\ runs[1].app = "running" /\ runs[2].app = "running"
    /\ runs[1].idleTime = 1 /\ runs[2].idleTime = 42
    /\ runs[1].colorAlert = FALSE
    /\ runs[1].timerActive /\ runs[1].s = 1
    /\ runs[1].watched_programs[2] = NameA

====
